---- MODULE Spec2Model ----
(***************************************************************************)
(* Model of hyperproof/utils.py: the APIClient token slot, the header      *)
(* construction, the four HTTP verbs and the response normalizer.          *)
(*                                                                         *)
(* Python values are records tagged with their type in the field "kind".   *)
(* The token endpoint and the resource server are the environment: every   *)
(* answer they can give is drawn with \E from the finite sets below.       *)
(***************************************************************************)
EXTENDS Integers, Sequences, FiniteSets, TLC

VARIABLES
    client_id,      \* APIClient.client_id
    client_secret,  \* APIClient.client_secret
    access_token,   \* APIClient.access_token, the token slot
    pc,             \* position of the one calling thread inside the client
    call,           \* the call in progress or last completed: op and arguments
    slotAtEntry,    \* value of the slot when _get_headers() was entered
    auth,           \* the most recent exchange with the token endpoint, if any
    issued,         \* the tokens that authentications have stored in the slot
    headers,        \* the headers _get_headers() built in this call, if any
    sent,           \* the resource request handed to requests.<verb>, if any
    response,       \* the resource server's answer to 'sent', if any
    result,         \* how the last call ended: returned value or raised exception
    headerCalls,    \* invocations of _get_headers() made by this call
    tokenReqs,      \* requests to TOKEN_ENDPOINT issued by this call
    resReqs,        \* resource requests issued by this call
    calls,          \* number of calls started on this client
    wrapper,        \* the by-user wrapper call last made: its arguments, the users
                    \* fetched and how it ended
    threads,        \* per thread of a multi-threaded caller: its position in its verb call,
                    \* the slot value it tested, its headers, its request and its result
    loop,           \* the ProofAPI operation in progress or last finished, with its arguments
    ppc,            \* position inside that operation: idle, fetch (in the while loop), done
    all_proofs,     \* the accumulator of the pagination loop
    next_token,     \* the continuation token the next fetch will carry
    fetched,        \* the params of every page fetch issued, in order
    answers,        \* what the server answered to every page fetch, in order
    pages,          \* the value client.get returned for every page fetch, in order
    outcome,        \* how the operation ended: returned value or raised exception
    example         \* how one pass of the loop of example_proof.py ended, once it ran

clientVars == <<client_id, client_secret, access_token, pc, call, slotAtEntry, auth, issued, headers, sent, response,
                result, headerCalls, tokenReqs, resReqs, calls, threads, wrapper>>

pageVars == <<loop, ppc, all_proofs, next_token, fetched, answers, pages, outcome, example>>

vars == <<clientVars, pageVars>>

-----------------------------------------------------------------------------
(* Bounds *)

MaxCalls == 2

\* Page fetches one pagination loop may issue.
MaxFetches == 3

-----------------------------------------------------------------------------
(* Python values *)

PyNone == [kind |-> "None"]

PyStr(s) == [kind |-> "str", v |-> s]

PyDict(f) == [kind |-> "dict", v |-> f]

PyList(s) == [kind |-> "list", v |-> s]

PyInt(n) == [kind |-> "int", v |-> n]

PyBool(b) == [kind |-> "bool", v |-> b]

\* A value json.dumps cannot serialize (a datetime, a set, an open file).
PyObj == [kind |-> "object"]

EmptyDict == PyDict(<<>>)

\* bool(v) as Python's "if v" / "not v" evaluates it.
Truthy(v) ==
    CASE v.kind = "None" -> FALSE
      [] v.kind = "str"  -> v.v # ""
      [] v.kind = "dict" -> DOMAIN v.v # {}
      [] v.kind = "list" -> Len(v.v) > 0
      [] v.kind = "int"  -> v.v # 0
      [] v.kind = "bool" -> v.v
      [] OTHER           -> TRUE

\* f"{v}" for the values that reach an f-string in the client.
PyFormat(v) ==
    CASE v.kind = "None" -> "None"
      [] v.kind = "str"  -> v.v
      [] v.kind = "int"  -> ToString(v.v)
      [] v.kind = "bool" -> IF v.v THEN "True" ELSE "False"
      [] OTHER           -> "<object>"

\* d.get(key): the value under key, or None.
DictGet(d, key) == IF key \in DOMAIN d.v THEN d.v[key] ELSE PyNone

\* Does json.dumps(v) succeed?  (It raises TypeError otherwise.)
RECURSIVE JsonSerializable(_)
JsonSerializable(v) ==
    CASE v.kind = "dict"   -> \A k \in DOMAIN v.v : JsonSerializable(v.v[k])
      [] v.kind = "list"   -> \A i \in 1..Len(v.v) : JsonSerializable(v.v[i])
      [] v.kind = "object" -> FALSE
      [] OTHER             -> TRUE

-----------------------------------------------------------------------------
(* The environment: bodies, content types, statuses, answers *)

BodyTok1    == "{\"access_token\": \"tok1\"}"
BodyTok2    == "{\"access_token\": \"tok2\"}"
BodyTokEmpty == "{\"access_token\": \"\"}"
BodyTokNull == "{\"access_token\": null}"
BodyNoField == "{\"error\": \"denied\"}"
BodyObject  == "{}"
BodyArray   == "[]"
BodyNull    == "null"
BodyHtml    == "<html>oops</html>"

\* Proof records, users and labels as the resource server serializes them.
Proof1 == PyDict([k \in {"id", "createdBy"} |-> IF k = "id" THEN PyStr("p1") ELSE PyStr("u1")])
Proof2 == PyDict([k \in {"id", "createdBy"} |-> IF k = "id" THEN PyStr("p2") ELSE PyStr("u2")])
Proof3 == PyDict([k \in {"id", "createdBy"} |-> IF k = "id" THEN PyStr("p3") ELSE PyStr("u1")])
Proof4 == PyDict([k \in {"id", "createdBy"} |-> IF k = "id" THEN PyStr("p4") ELSE PyStr("u2")])

User1 ==
    PyDict([k \in {"id", "givenName", "surname"} |->
              CASE k = "id" -> PyStr("u1") [] k = "givenName" -> PyStr("Ann") [] k = "surname" -> PyStr("Smith")])
User2 ==
    PyDict([k \in {"id", "givenName", "surname"} |->
              CASE k = "id" -> PyStr("u2") [] k = "givenName" -> PyStr("Bob") [] k = "surname" -> PyStr("Smith")])

Label1 == PyDict([k \in {"id", "name"} |-> IF k = "id" THEN PyStr("L1") ELSE PyStr("Security")])

\* Page bodies: two pages that continue, two that end the result set (no
\* continuationToken, an empty one), one without data, one whose data is null.
BodyPageA ==
    "{\"data\": [{\"id\": \"p1\", \"createdBy\": \"u1\"}, {\"id\": \"p2\", \"createdBy\": \"u2\"}], \"continuationToken\": \"t1\"}"
BodyPageB ==
    "{\"data\": [{\"id\": \"p3\", \"createdBy\": \"u1\"}], \"continuationToken\": \"t2\"}"
BodyPageLast == "{\"data\": [{\"id\": \"p4\", \"createdBy\": \"u2\"}]}"
BodyPageEmptyToken == "{\"data\": [], \"continuationToken\": \"\"}"
BodyPageNoData == "{\"continuationToken\": \"t1\"}"
BodyPageDataNull == "{\"data\": null}"
BodyUsers ==
    "[{\"id\": \"u1\", \"givenName\": \"Ann\", \"surname\": \"Smith\"}, {\"id\": \"u2\", \"givenName\": \"Bob\", \"surname\": \"Smith\"}]"
BodyLabels == "[{\"id\": \"L1\", \"name\": \"Security\"}]"

\* Records the by-user wrappers look through: a control with its owner, a
\* label and a risk of user u1, a task.
Control1 ==
    PyDict([k \in {"id", "owner"} |->
              IF k = "id" THEN PyStr("c1") ELSE PyDict([j \in {"id"} |-> PyStr("u1")])])

UserLabel1 == PyDict([k \in {"id", "createdBy"} |-> IF k = "id" THEN PyStr("L2") ELSE PyStr("u1")])

Risk1 == PyDict([k \in {"id", "ownerId"} |-> IF k = "id" THEN PyStr("r1") ELSE PyStr("u1")])

Task1 == PyDict([k \in {"id"} |-> PyStr("k1")])

BodyControls == "[{\"id\": \"c1\", \"owner\": {\"id\": \"u1\"}}]"
BodyUserLabels == "[{\"id\": \"L2\", \"createdBy\": \"u1\"}]"
BodyRisks == "[{\"id\": \"r1\", \"ownerId\": \"u1\"}]"
BodyTasks == "[{\"id\": \"k1\"}]"

\* A page as json.loads yields it: data, and continuationToken when given.
PageValue(data, token) ==
    PyDict([k \in {"data", "continuationToken"} |-> IF k = "data" THEN data ELSE token])

\* response.json(): json.loads of the body text, on the bodies the
\* environment can send.  ok = FALSE stands for the ValueError
\* (JSONDecodeError) raised on text that is not JSON.
JsonLoads(text) ==
    CASE text = BodyTok1     -> [ok |-> TRUE, v |-> PyDict([k \in {"access_token"} |-> PyStr("tok1")])]
      [] text = BodyTok2     -> [ok |-> TRUE, v |-> PyDict([k \in {"access_token"} |-> PyStr("tok2")])]
      [] text = BodyTokEmpty -> [ok |-> TRUE, v |-> PyDict([k \in {"access_token"} |-> PyStr("")])]
      [] text = BodyTokNull  -> [ok |-> TRUE, v |-> PyDict([k \in {"access_token"} |-> PyNone])]
      [] text = BodyNoField  -> [ok |-> TRUE, v |-> PyDict([k \in {"error"} |-> PyStr("denied")])]
      [] text = BodyObject   -> [ok |-> TRUE, v |-> EmptyDict]
      [] text = BodyArray    -> [ok |-> TRUE, v |-> PyList(<<>>)]
      [] text = BodyNull     -> [ok |-> TRUE, v |-> PyNone]
      [] text = BodyPageA    -> [ok |-> TRUE, v |-> PageValue(PyList(<<Proof1, Proof2>>), PyStr("t1"))]
      [] text = BodyPageB    -> [ok |-> TRUE, v |-> PageValue(PyList(<<Proof3>>), PyStr("t2"))]
      [] text = BodyPageLast -> [ok |-> TRUE, v |-> PyDict([k \in {"data"} |-> PyList(<<Proof4>>)])]
      [] text = BodyPageEmptyToken -> [ok |-> TRUE, v |-> PageValue(PyList(<<>>), PyStr(""))]
      [] text = BodyPageNoData -> [ok |-> TRUE, v |-> PyDict([k \in {"continuationToken"} |-> PyStr("t1")])]
      [] text = BodyPageDataNull -> [ok |-> TRUE, v |-> PyDict([k \in {"data"} |-> PyNone])]
      [] text = BodyUsers    -> [ok |-> TRUE, v |-> PyList(<<User1, User2>>)]
      [] text = BodyLabels   -> [ok |-> TRUE, v |-> PyList(<<Label1>>)]
      [] text = BodyControls -> [ok |-> TRUE, v |-> PyList(<<Control1>>)]
      [] text = BodyUserLabels -> [ok |-> TRUE, v |-> PyList(<<UserLabel1>>)]
      [] text = BodyRisks    -> [ok |-> TRUE, v |-> PyList(<<Risk1>>)]
      [] text = BodyTasks    -> [ok |-> TRUE, v |-> PyList(<<Task1>>)]
      [] OTHER               -> [ok |-> FALSE, v |-> PyNone]

CtJson        == "application/json"
CtJsonCharset == "application/json; charset=utf-8"
CtHtml        == "text/html"
CtMissing     == ""

\* 'application/json' in response.headers.get('Content-Type', '')
IsJsonContentType(ct) == ct \in {CtJson, CtJsonCharset}

TransportErrors == {"ConnectionError", "Timeout", "RequestException"}

\* Statuses of the token endpoint: the one success status the client accepts,
\* and two it refuses (201 is refused although it is a 2xx).
TokenStatuses == {200, 201, 401}

RefusedTokenBodies == {BodyTok1, BodyNoField}

TokenContentTypes == {CtJson, CtHtml}

TokenBodies == {BodyTok1, BodyTok2, BodyTokEmpty, BodyTokNull, BodyNoField,
                BodyArray, BodyHtml}

\* Statuses of the resource server, with both edges of the 400..599 range.
ResourceStatuses == {200, 399, 400, 401, 403, 404, 599, 600}

ResourceContentTypes == {CtJsonCharset, CtMissing}

ResourceBodies == {BodyNoField, BodyObject, BodyNull, BodyHtml}

\* Bodies under the statuses raise_for_status refuses, where the client reads
\* neither the body nor the content type.
RefusedResourceBodies == {BodyNoField, BodyHtml}

HttpResponse(st, ct, text) ==
    [kind |-> "response", status |-> st, ctype |-> ct, text |-> text]

TransportFailure(e) == [kind |-> "error", exc |-> e]

\* Every body and content type under status 200; under the refused statuses,
\* where the client reads neither, a body with a token and one without.
TokenAnswers ==
    {HttpResponse(200, ct, b) : ct \in TokenContentTypes, b \in TokenBodies}
    \cup {HttpResponse(st, CtJson, b) : st \in TokenStatuses \ {200}, b \in RefusedTokenBodies}
    \cup {TransportFailure(e) : e \in TransportErrors}

ResourceAnswers ==
    {HttpResponse(st, ct, b) : st \in ResourceStatuses \ (400..599),
                               ct \in ResourceContentTypes, b \in ResourceBodies}
    \cup {HttpResponse(st, CtJsonCharset, b) : st \in ResourceStatuses \cap (400..599),
                                             b \in RefusedResourceBodies}
    \cup {TransportFailure(e) : e \in TransportErrors}

\* What the proof endpoint answers to a page fetch.
PageBodies == {BodyPageA, BodyPageB, BodyPageLast, BodyPageEmptyToken, BodyPageNoData,
               BodyPageDataNull, BodyObject, BodyNull}

PageAnswers ==
    {HttpResponse(200, CtJsonCharset, b) : b \in PageBodies}
    \cup {HttpResponse(403, CtJsonCharset, BodyNoField),
          HttpResponse(404, CtJsonCharset, BodyNoField),
          HttpResponse(500, CtHtml, BodyHtml),
          HttpResponse(200, CtMissing, BodyPageLast),
          TransportFailure("Timeout")}

\* What the users endpoint answers to get_organization_users().
UsersAnswers ==
    {HttpResponse(200, CtJsonCharset, BodyUsers),
     HttpResponse(200, CtJsonCharset, BodyObject),
     HttpResponse(403, CtJsonCharset, BodyNoField),
     TransportFailure("Timeout")}

\* What the labels endpoint answers to get_label_summaries().
LabelsAnswers ==
    {HttpResponse(200, CtJsonCharset, BodyLabels),
     HttpResponse(200, CtJsonCharset, BodyObject),
     HttpResponse(403, CtJsonCharset, BodyNoField),
     TransportFailure("Timeout")}

\* What a collection endpoint answers to a wrapper's second fetch: the
\* records of the body given, none, a refusal, a transport failure.
ItemAnswers(body) ==
    {HttpResponse(200, CtJsonCharset, body),
     HttpResponse(200, CtJsonCharset, BodyArray),
     HttpResponse(403, CtJsonCharset, BodyNoField),
     TransportFailure("Timeout")}

\* "Nothing yet" for the per-call records below (no exchange, no headers, ...).
Nothing == [kind |-> "nothing"]

\* How a call ends.
Returned(v) == [kind |-> "return", value |-> v]

Raised(e) == [kind |-> "raise", exc |-> e]

-----------------------------------------------------------------------------
(* Arguments the callers pass *)

Verbs == {"get", "post", "put", "patch"}

\* The params mapping the pagination loops of ProofAPI build, for the filters
\* and the continuation token given.
PageParams(limit, sort_by, sort_direction, object_type, object_id, token) ==
    PyDict([k \in {"limit", "sortBy", "sortDirection", "objectType", "objectId", "nextToken"} |->
              CASE k = "limit"         -> limit
                [] k = "sortBy"        -> sort_by
                [] k = "sortDirection" -> sort_direction
                [] k = "objectType"    -> object_type
                [] k = "objectId"      -> object_id
                [] k = "nextToken"     -> token])

\* The first request of get_proof_metadata_collection() with its defaults.
FirstPageParams ==
    PageParams(PyInt(500), PyStr("uploadedOn"), PyStr("desc"), PyNone, PyNone, PyNone)

\* params of get: none, a plain mapping, the first request of a pagination
\* loop (three nil values), and a mapping holding a value json.dumps rejects.
ParamsArgs == {PyNone,
               PyDict([k \in {"limit"} |-> PyStr("10")]),
               FirstPageParams,
               PyDict([k \in {"since"} |-> PyObj])}

\* data of post/put/patch.
DataArgs == {PyNone,
             PyDict([k \in {"title"} |-> PyStr("t")]),
             PyDict([k \in {"dueDate"} |-> PyObj])}

\* The data mapping update_task builds: all nine fields, None for every
\* argument the caller left out.
UpdateTaskData(title, priority) ==
    PyDict([k \in {"title", "description", "assigneeId", "targetId", "targetType",
                   "taskStatusId", "priority", "sortOrder", "dueDate"} |->
              CASE k = "title"    -> title
                [] k = "priority" -> priority
                [] OTHER          -> PyNone])

\* update_task called with a title only, and with a title and a priority.
UpdateTaskArgs == {UpdateTaskData(PyStr("t"), PyNone), UpdateTaskData(PyStr("t"), PyStr("high"))}

\* with open(file_path, 'rb') as file: files = {'proof': file}
ProofFiles == PyDict([k \in {"proof"} |-> PyObj])

\* files of post: absent, empty, or one open file under the field "proof".
FilesArgs == {PyNone, EmptyDict, ProofFiles}

\* The data mapping add_task_proof builds from its provenance arguments.
ProvenanceData(owned_by, source, source_id, source_file_id, modified_on, live_sync) ==
    PyDict([k \in {"hp-proof-owned-by", "hp-proof-source", "hp-proof-source-id",
                   "hp-proof-source-file-id", "hp-proof-source-modified-on",
                   "hp-proof-live-sync-enabled"} |->
              CASE k = "hp-proof-owned-by"           -> owned_by
                [] k = "hp-proof-source"             -> source
                [] k = "hp-proof-source-id"          -> source_id
                [] k = "hp-proof-source-file-id"     -> source_file_id
                [] k = "hp-proof-source-modified-on" -> modified_on
                [] k = "hp-proof-live-sync-enabled"  -> live_sync])

\* Provenance arguments of add_task_proof: the defaults, and all six given.
ProvenanceArgs ==
    {ProvenanceData(PyNone, PyNone, PyNone, PyNone, PyNone, PyBool(FALSE)),
     ProvenanceData(PyStr("u1"), PyStr("drive"), PyStr("s1"), PyStr("f1"),
                    PyStr("2024-09-25T00:00:00Z"), PyBool(TRUE))}

\* The methods class APIClient defines.
ClientMethods == {"__init__", "_authenticate", "_get_headers", "get", "post", "put",
                  "patch", "_handle_response", "_parse_json"}

-----------------------------------------------------------------------------
(* The client's pure parts *)

\* Variant of raise_for_status that only treats 4xx as an error.
raise_for_status_4xx(status) == 400 <= status /\ status < 500

\* response.raise_for_status(): raises HTTPError exactly on 4xx and 5xx.
raise_for_status(status) == 400 <= status /\ status < 600

\* Variant of _parse_json that answers None when the body does not parse.
_parse_json_none(resp) ==
    IF IsJsonContentType(resp.ctype)
    THEN LET parsed == JsonLoads(resp.text)
         IN  IF parsed.ok THEN parsed.v ELSE PyNone
    ELSE EmptyDict

\* APIClient._parse_json
_parse_json(resp) ==
    IF IsJsonContentType(resp.ctype)
    THEN LET parsed == JsonLoads(resp.text)
         IN  IF parsed.ok THEN parsed.v ELSE EmptyDict
    ELSE EmptyDict

\* Variant of _handle_response that parses whatever raw says.
_handle_response_noraw(resp, raw) ==
    IF raise_for_status(resp.status) THEN PyNone ELSE _parse_json(resp)

\* APIClient._handle_response: the value it returns (it never raises).
_handle_response(resp, raw) ==
    IF raise_for_status(resp.status)
    THEN PyNone
    ELSE IF raw THEN PyStr(resp.text) ELSE _parse_json(resp)

\* Variant of _authenticate without the except clause: a transport failure
\* escapes and the slot keeps its value.
_authenticate_nocatch(slot, answer) ==
    IF answer.kind = "error"
    THEN [token |-> slot, raised |-> answer.exc]
    ELSE IF answer.status = 200
         THEN LET response_json == _parse_json(answer)
              IN  IF response_json.kind = "dict"
                  THEN [token |-> DictGet(response_json, "access_token"), raised |-> "none"]
                  ELSE [token |-> slot, raised |-> "AttributeError"]
         ELSE [token |-> PyNone, raised |-> "none"]

\* Variant of _authenticate that raises on a refused status, as a
\* response.raise_for_status() before the test of the status would.
_authenticate_raising(slot, answer) ==
    IF answer.kind = "error"
    THEN [token |-> PyNone, raised |-> "none"]
    ELSE IF answer.status = 200
         THEN LET response_json == _parse_json(answer)
              IN  IF response_json.kind = "dict"
                  THEN [token |-> DictGet(response_json, "access_token"), raised |-> "none"]
                  ELSE [token |-> slot, raised |-> "AttributeError"]
         ELSE [token |-> slot, raised |-> "HTTPError"]

\* APIClient._authenticate, given the slot before the call and the token
\* endpoint's answer: the slot afterwards and the exception that escapes
\* ("none" when it returns normally).  On 200 the parsed body's .get is
\* called, which only a dict has: any other parsed value raises
\* AttributeError, which the except tuple does not list.
_authenticate(slot, answer) ==
    IF answer.kind = "error"
    THEN [token |-> PyNone, raised |-> "none"]
    ELSE IF answer.status = 200
         THEN LET response_json == _parse_json(answer)
              IN  IF response_json.kind = "dict"
                  THEN [token |-> DictGet(response_json, "access_token"), raised |-> "none"]
                  ELSE [token |-> slot, raised |-> "AttributeError"]
         ELSE [token |-> PyNone, raised |-> "none"]

\* Variant of the guard with the test inverted.
ReauthNeededInverted(slot) == Truthy(slot)

\* Variant of the guard that re-authenticates on every call.
ReauthNeededAlways(slot) == TRUE

\* The guard of _get_headers: "if not self.access_token".
ReauthNeeded(slot) == ~Truthy(slot)

\* Variant of the mapping without the "Bearer " scheme.
BuildHeadersNoScheme(slot) ==
    PyDict([k \in {"Authorization", "Content-Type"} |->
              IF k = "Authorization"
              THEN PyStr(PyFormat(slot))
              ELSE PyStr("application/json")])

\* Variant of the mapping built from the slot as it was on entry, before
\* the re-authentication.
BuildHeadersStale(slot) ==
    PyDict([k \in {"Authorization", "Content-Type"} |->
              IF k = "Authorization"
              THEN PyStr("Bearer " \o PyFormat(slotAtEntry))
              ELSE PyStr("application/json")])

\* The mapping _get_headers returns.
BuildHeaders(slot) ==
    PyDict([k \in {"Authorization", "Content-Type"} |->
              IF k = "Authorization"
              THEN PyStr("Bearer " \o PyFormat(slot))
              ELSE PyStr("application/json")])

\* Variant of the except clause that logs and re-raises.
VerbExceptReraise(exc) == Raised(exc)

\* The "except Exception" clause of get/post/put/patch: log and return None.
VerbExcept(exc) == Returned(PyNone)

\* str(v) applied to every value of a mapping (None becomes "None").
Stringified(d) ==
    IF d.kind = "dict" THEN PyDict([k \in DOMAIN d.v |-> PyStr(PyFormat(d.v[k]))]) ELSE d

\* Variant of RequestOf whose get stringifies the params itself.
RequestOfStringified(c, hdrs) ==
    CASE c.op = "get" ->
           [method |-> "GET", headers |-> hdrs, params |-> Stringified(c.arg), json |-> PyNone, files |-> PyNone]
      [] c.op = "post" ->
           IF Truthy(c.files)
           THEN [method |-> "POST", headers |-> hdrs, params |-> PyNone, json |-> PyNone, files |-> c.files]
           ELSE [method |-> "POST", headers |-> hdrs, params |-> PyNone, json |-> c.arg, files |-> PyNone]
      [] c.op = "put" ->
           [method |-> "PUT", headers |-> hdrs, params |-> PyNone, json |-> c.arg, files |-> PyNone]
      [] c.op = "patch" ->
           [method |-> "PATCH", headers |-> hdrs, params |-> PyNone, json |-> c.arg, files |-> PyNone]

\* Variant of RequestOf whose post passes data next to the files.
RequestOfBoth(c, hdrs) ==
    CASE c.op = "get" ->
           [method |-> "GET", headers |-> hdrs, params |-> c.arg, json |-> PyNone, files |-> PyNone]
      [] c.op = "post" ->
           [method |-> "POST", headers |-> hdrs, params |-> PyNone, json |-> c.arg, files |-> c.files]
      [] c.op = "put" ->
           [method |-> "PUT", headers |-> hdrs, params |-> PyNone, json |-> c.arg, files |-> PyNone]
      [] c.op = "patch" ->
           [method |-> "PATCH", headers |-> hdrs, params |-> PyNone, json |-> c.arg, files |-> PyNone]

\* The keyword arguments the verb hands to requests.<verb>.
RequestOf(c, hdrs) ==
    CASE c.op = "get" ->
           [method |-> "GET", headers |-> hdrs, params |-> c.arg, json |-> PyNone, files |-> PyNone]
      [] c.op = "post" ->
           IF Truthy(c.files)
           THEN [method |-> "POST", headers |-> hdrs, params |-> PyNone, json |-> PyNone, files |-> c.files]
           ELSE [method |-> "POST", headers |-> hdrs, params |-> PyNone, json |-> c.arg, files |-> PyNone]
      [] c.op = "put" ->
           [method |-> "PUT", headers |-> hdrs, params |-> PyNone, json |-> c.arg, files |-> PyNone]
      [] c.op = "patch" ->
           [method |-> "PATCH", headers |-> hdrs, params |-> PyNone, json |-> c.arg, files |-> PyNone]

\* json.dumps of one value of a body.
JsonText(v) ==
    CASE v.kind = "None" -> "null"
      [] v.kind = "str"  -> "\"" \o v.v \o "\""
      [] v.kind = "bool" -> IF v.v THEN "true" ELSE "false"
      [] OTHER           -> PyFormat(v)

\* Variant of the body that leaves out the None-valued keys, as the query
\* string does.
JsonBodyNilDropped(data) ==
    IF data.kind = "dict"
    THEN [k \in {j \in DOMAIN data.v : data.v[j] # PyNone} |-> JsonText(data.v[k])]
    ELSE <<>>

\* The JSON object requests transmits for json=data: one member per key of
\* the mapping, None written as null.
JsonBody(data) ==
    IF data.kind = "dict"
    THEN [k \in DOMAIN data.v |-> JsonText(data.v[k])]
    ELSE <<>>

\* The query string requests.get transmits for params: one key=value pair
\* per key whose value is not None, the value formatted with str().
QueryString(params) ==
    IF params.kind = "dict"
    THEN [k \in {j \in DOMAIN params.v : params.v[j] # PyNone} |-> PyFormat(params.v[k])]
    ELSE <<>>

-----------------------------------------------------------------------------
(* The state machine *)

\* The tokens stored so far, after an _authenticate() with outcome out: a
\* token is stored when the call returned normally with a non-None value.
Stored(tokens, out) ==
    IF out.raised = "none" /\ out.token # PyNone
    THEN tokens \cup {out.token}
    ELSE tokens

\* The threads of a caller that shares the one client (hyperproof/__init__.py
\* creates a single APIClient for every API class).
Threads == {1, 2}

\* A thread that has not called the client yet.
IdleThread ==
    [pc |-> "idle", seen |-> Nothing, tokenReqs |-> 0, headers |-> Nothing,
     sent |-> Nothing, result |-> Nothing]

\* The credentials handed to the constructor.
GivenClientId == PyStr("client-1")

GivenClientSecret == PyStr("secret-1")

\* The form _authenticate() posts to the token endpoint.
AuthParams(id, secret) ==
    PyDict([k \in {"grant_type", "client_id", "client_secret"} |->
              CASE k = "grant_type"    -> PyStr("client_credentials")
                [] k = "client_id"     -> id
                [] k = "client_secret" -> secret])

\* Variant of the constructor without its try/except.
InitExceptReraise(out) ==
    [token  |-> out.token,
     result |-> IF out.raised = "none" THEN Returned(PyNone) ELSE Raised(out.raised)]

\* The try/except Exception of __init__ around _authenticate(): an exception
\* is logged, the slot is set to None, and the constructor returns.
InitExcept(out) ==
    [token  |-> IF out.raised = "none" THEN out.token ELSE PyNone,
     result |-> Returned(PyNone)]

\* The constructor has run up to "self.access_token = None" and is about to
\* make its authentication attempt.
Init ==
    /\ client_id = GivenClientId
    /\ client_secret = GivenClientSecret
    /\ access_token = PyNone
    /\ pc = "init"
    /\ call = [via |-> "client", op |-> "__init__", arg |-> PyNone, files |-> PyNone, raw |-> FALSE]
    /\ slotAtEntry = Nothing
    /\ auth = Nothing
    /\ issued = {}
    /\ headers = Nothing
    /\ sent = Nothing
    /\ response = Nothing
    /\ result = Nothing
    /\ headerCalls = 0
    /\ tokenReqs = 0
    /\ resReqs = 0
    /\ calls = 0
    /\ threads = [t \in Threads |-> IdleThread]
    /\ wrapper = Nothing
    /\ loop = Nothing
    /\ ppc = "idle"
    /\ all_proofs = <<>>
    /\ next_token = PyNone
    /\ fetched = <<>>
    /\ answers = <<>>
    /\ pages = <<>>
    /\ outcome = Nothing
    /\ example = Nothing

\* APIClient.__init__: one _authenticate() inside try/except Exception.
Construct ==
    /\ pc = "init"
    /\ \E answer \in TokenAnswers :
          LET out == _authenticate(access_token, answer)
          IN  /\ access_token' = InitExcept(out).token
              /\ result' = InitExcept(out).result
              /\ auth' = [answer |-> answer, raised |-> out.raised,
                          params |-> AuthParams(client_id, client_secret)]
              /\ issued' = Stored(issued, out)
    /\ tokenReqs' = tokenReqs + 1
    /\ pc' = "idle"
    /\ UNCHANGED <<pageVars, client_id, client_secret, threads, wrapper>>
    /\ UNCHANGED <<call, slotAtEntry, headers, sent, response, headerCalls, resReqs, calls>>

\* Entry of a verb: build the url and log the arguments.  The log line runs
\* json.dumps on params/data before the try block is entered.
\* "via" names the caller: the client's user, or a resource wrapper.
EnterVerbVia(via, op, arg, files, raw) ==
    /\ pc = "idle"
    /\ calls < MaxCalls
    /\ calls' = calls + 1
    /\ call' = [via |-> via, op |-> op, arg |-> arg, files |-> files, raw |-> raw]
    /\ headerCalls' = 0
    /\ slotAtEntry' = Nothing
    /\ headers' = Nothing
    /\ sent' = Nothing
    /\ response' = Nothing
    /\ tokenReqs' = 0
    /\ resReqs' = 0
    /\ IF JsonSerializable(arg)
       THEN /\ pc' = "get_headers"
            /\ result' = Nothing
       ELSE /\ pc' = "idle"
            /\ result' = Raised("TypeError")
    /\ UNCHANGED <<pageVars, client_id, client_secret, threads, wrapper>>
    /\ UNCHANGED <<access_token, auth, issued>>

EnterVerb(op, arg, files, raw) == EnterVerbVia("client", op, arg, files, raw)

Get == \E params \in ParamsArgs, raw \in BOOLEAN : EnterVerb("get", params, PyNone, raw)

Post == \E data \in DataArgs, files \in FilesArgs, raw \in BOOLEAN : EnterVerb("post", data, files, raw)

Put == \E data \in DataArgs, raw \in BOOLEAN : EnterVerb("put", data, PyNone, raw)

Patch == \E data \in DataArgs, raw \in BOOLEAN : EnterVerb("patch", data, PyNone, raw)

\* A direct call of _get_headers().
CallGetHeaders == EnterVerb("_get_headers", PyNone, PyNone, FALSE)

\* TasksAPI.add_task_proof: the file under "proof", the provenance mapping
\* as data, both handed to post.
AddTaskProof ==
    \E data \in ProvenanceArgs, raw \in BOOLEAN :
        EnterVerbVia("add_task_proof", "post", data, ProofFiles, raw)

\* TasksAPI.update_task: the nine-field mapping handed to patch.
UpdateTask ==
    \E data \in UpdateTaskArgs, raw \in BOOLEAN :
        EnterVerbVia("update_task", "patch", data, PyNone, raw)

\* TasksAPI.delete_task_comment: evaluates self.client.delete, an attribute
\* class APIClient does not define, so the lookup raises AttributeError.
DeleteTaskComment ==
    /\ pc = "idle"
    /\ calls < MaxCalls
    /\ "delete" \notin ClientMethods
    /\ calls' = calls + 1
    /\ \E raw \in BOOLEAN :
          call' = [via |-> "delete_task_comment", op |-> "delete", arg |-> PyNone,
                   files |-> PyNone, raw |-> raw]
    /\ slotAtEntry' = Nothing
    /\ headers' = Nothing
    /\ sent' = Nothing
    /\ response' = Nothing
    /\ headerCalls' = 0
    /\ tokenReqs' = 0
    /\ resReqs' = 0
    /\ result' = Raised("AttributeError")
    /\ pc' = "idle"
    /\ UNCHANGED <<pageVars, client_id, client_secret, threads, wrapper>>
    /\ UNCHANGED <<access_token, auth, issued>>

\* _get_headers, the test of the slot.
GetHeaders ==
    /\ pc = "get_headers"
    /\ slotAtEntry' = access_token
    /\ headerCalls' = headerCalls + 1
    /\ pc' = IF ReauthNeeded(access_token) THEN "authenticate" ELSE "build_headers"
    /\ UNCHANGED <<pageVars, client_id, client_secret, threads, wrapper>>
    /\ UNCHANGED <<access_token, call, auth, issued, headers, sent, response, result,
                   tokenReqs, resReqs, calls>>

\* _authenticate called from _get_headers: one POST to the token endpoint.
\* An escaping exception leaves _get_headers and is caught by the verb's
\* "except Exception"; a direct caller of _get_headers receives it.
Authenticate ==
    /\ pc = "authenticate"
    /\ tokenReqs' = tokenReqs + 1
    /\ \E answer \in TokenAnswers :
          LET out == _authenticate(access_token, answer)
          IN  /\ access_token' = out.token
              /\ auth' = [answer |-> answer, raised |-> out.raised,
                          params |-> AuthParams(client_id, client_secret)]
              /\ issued' = Stored(issued, out)
              /\ IF out.raised = "none"
                 THEN /\ pc' = "build_headers"
                      /\ result' = result
                 ELSE /\ pc' = "idle"
                      /\ result' = IF call.op \in Verbs
                                    THEN VerbExcept(out.raised)
                                    ELSE Raised(out.raised)
    /\ UNCHANGED <<pageVars, client_id, client_secret, threads, wrapper>>
    /\ UNCHANGED <<call, slotAtEntry, headers, sent, response, headerCalls, resReqs, calls>>

\* _get_headers, the construction of the mapping.
ReturnHeaders ==
    /\ pc = "build_headers"
    /\ headers' = BuildHeaders(access_token)
    /\ IF call.op \in Verbs
       THEN /\ pc' = "send"
            /\ result' = result
       ELSE /\ pc' = "idle"
            /\ result' = Returned(BuildHeaders(access_token))
    /\ UNCHANGED <<pageVars, client_id, client_secret, threads, wrapper>>
    /\ UNCHANGED <<access_token, call, slotAtEntry, auth, issued, sent, response,
                   headerCalls, tokenReqs, resReqs, calls>>

\* requests.<verb>(url, headers=..., ...) and _handle_response on its answer.
Send ==
    /\ pc = "send"
    /\ sent' = RequestOf(call, headers)
    /\ resReqs' = resReqs + 1
    /\ \E answer \in ResourceAnswers :
          /\ response' = answer
          /\ result' = IF answer.kind = "error"
                        THEN VerbExcept(answer.exc)
                        ELSE Returned(_handle_response(answer, call.raw))
    /\ pc' = "idle"
    /\ UNCHANGED <<pageVars, client_id, client_secret, threads, wrapper>>
    /\ UNCHANGED <<access_token, call, slotAtEntry, auth, issued, headers, headerCalls,
                   tokenReqs, calls>>

Next ==
    \/ Construct
    \/ Get
    \/ Post
    \/ Put
    \/ Patch
    \/ CallGetHeaders
    \/ AddTaskProof
    \/ UpdateTask
    \/ DeleteTaskComment
    \/ GetHeaders
    \/ Authenticate
    \/ ReturnHeaders
    \/ Send

Spec == Init /\ [][Next]_vars

-----------------------------------------------------------------------------
(* Two threads calling get() on the shared client *)

\* What a step of a thread leaves alone: the single-threaded bookkeeping and
\* the pagination state.
threadFrame == <<pageVars, wrapper, client_id, client_secret, pc, call, slotAtEntry, headers, sent,
                 response, result, headerCalls, tokenReqs, resReqs, calls>>

\* The call of a thread: get(base_url, endpoint) with no params.
ThreadCall == [via |-> "client", op |-> "get", arg |-> PyNone, files |-> PyNone, raw |-> FALSE]

\* A thread enters get() on the constructed client.
ThreadEnter(t) ==
    /\ pc = "idle"
    /\ calls = 0
    /\ threads[t].pc = "idle"
    /\ threads' = [threads EXCEPT ![t].pc = "get_headers"]
    /\ UNCHANGED <<threadFrame, access_token, auth, issued>>

\* _get_headers in thread t: the test "if not self.access_token" reads the slot.
ThreadGetHeaders(t) ==
    /\ threads[t].pc = "get_headers"
    /\ threads' = [threads EXCEPT ![t].seen = access_token,
                                  ![t].pc = IF ReauthNeeded(access_token)
                                            THEN "authenticate"
                                            ELSE "build_headers"]
    /\ UNCHANGED <<threadFrame, access_token, auth, issued>>

\* _authenticate in thread t: the token request is answered and the slot is
\* written with the outcome, whatever the other thread stored meanwhile.
ThreadAuthenticate(t) ==
    /\ threads[t].pc = "authenticate"
    /\ \E answer \in TokenAnswers :
          LET out == _authenticate(access_token, answer)
          IN  /\ access_token' = out.token
              /\ auth' = [answer |-> answer, raised |-> out.raised,
                          params |-> AuthParams(client_id, client_secret)]
              /\ issued' = Stored(issued, out)
              /\ threads' = [threads EXCEPT
                                ![t].tokenReqs = @ + 1,
                                ![t].pc = IF out.raised = "none" THEN "build_headers" ELSE "done",
                                ![t].result = IF out.raised = "none"
                                              THEN @
                                              ELSE VerbExcept(out.raised)]
    /\ UNCHANGED threadFrame

\* _get_headers in thread t: the f-string reads the slot as it is now.
ThreadReturnHeaders(t) ==
    /\ threads[t].pc = "build_headers"
    /\ threads' = [threads EXCEPT ![t].headers = BuildHeaders(access_token),
                                  ![t].pc = "send"]
    /\ UNCHANGED <<threadFrame, access_token, auth, issued>>

\* requests.get in thread t and _handle_response on its answer.
ThreadSend(t) ==
    /\ threads[t].pc = "send"
    /\ \E answer \in ResourceAnswers :
          threads' = [threads EXCEPT
                        ![t].sent = RequestOf(ThreadCall, threads[t].headers),
                        ![t].result = IF answer.kind = "error"
                                      THEN VerbExcept(answer.exc)
                                      ELSE Returned(_handle_response(answer, FALSE)),
                        ![t].pc = "done"]
    /\ UNCHANGED <<threadFrame, access_token, auth, issued>>

RaceNext ==
    \/ Construct
    \/ \E t \in Threads : ThreadEnter(t)
    \/ \E t \in Threads : ThreadGetHeaders(t)
    \/ \E t \in Threads : ThreadAuthenticate(t)
    \/ \E t \in Threads : ThreadReturnHeaders(t)
    \/ \E t \in Threads : ThreadSend(t)

RaceSpec == Init /\ [][RaceNext]_vars

-----------------------------------------------------------------------------
(* The pagination loops of ProofAPI *)

\* client.get as its caller sees it: how the call ends for the params given
\* and the answer of the resource server.
ClientGet(params, answer, raw) ==
    IF ~JsonSerializable(params)
    THEN Raised("TypeError")
    ELSE IF answer.kind = "error"
         THEN VerbExcept(answer.exc)
         ELSE Returned(_handle_response(answer, raw))

\* key in v, for the containers json.loads yields.
Contains(v, key) ==
    CASE v.kind = "dict" -> key \in DOMAIN v.v
      [] v.kind = "list" -> \E i \in 1..Len(v.v) : v.v[i] = PyStr(key)
      [] OTHER           -> FALSE

\* d.get(key, default)
DictGetDefault(d, key, default) == IF key \in DOMAIN d.v THEN d.v[key] ELSE default

\* Variant of the page check in which get_proof_by_label tests its pages as
\* the two other loops do.
IntegrityErrorUniform(op, resp) ==
    IF ~Truthy(resp) \/ ~Contains(resp, "data") THEN "ValueError" ELSE "none"

\* Variant of the page check that only tests the response for absence.
IntegrityErrorLax(op, resp) ==
    IF op = "get_proof_by_label"
    THEN IF resp = PyNone THEN "PermissionError" ELSE "none"
    ELSE IF ~Truthy(resp) THEN "ValueError" ELSE "none"

\* The check of a page: the exception it raises, "none" when the page passes.
\* get_proof_by_label tests "response is None" and then "'data' not in
\* response"; the two other loops test "not response or 'data' not in response".
IntegrityError(op, resp) ==
    IF op = "get_proof_by_label"
    THEN IF resp = PyNone
         THEN "PermissionError"
         ELSE IF ~Contains(resp, "data") THEN "ValueError" ELSE "none"
    ELSE IF ~Truthy(resp) \/ ~Contains(resp, "data") THEN "ValueError" ELSE "none"

\* Variant of the accumulation that keeps the latest page only.
ExtendReplacing(acc, data) == data.v

\* all_proofs.extend(data)
Extend(acc, data) == acc \o data.v

\* Variant of the loop test that ends the loop after one page.
LoopContinuesNever(token) == FALSE

\* Variant of the loop test that only stops on None.
LoopContinuesUnlessNone(token) == token # PyNone

\* The loop goes on unless "not next_token".
LoopContinues(token) == Truthy(token)

\* The user_proofs filter of get_proof_by_user: every proof once per filtered
\* user whose id or userId equals its createdBy.
RECURSIVE UserProofs(_, _)
UserProofs(acc, users) ==
    IF acc = <<>>
    THEN <<>>
    ELSE LET proof == Head(acc)
             hits  == IF proof.kind = "dict"
                      THEN SelectSeq(users, LAMBDA u :
                               \/ DictGet(proof, "createdBy") = DictGet(u, "id")
                               \/ DictGet(proof, "createdBy") = DictGet(u, "userId"))
                      ELSE <<>>
         IN  [i \in 1..Len(hits) |-> proof] \o UserProofs(Tail(acc), users)

\* The filtered_users of get_proof_by_user (the if/elif chain per user).
FilterUsers(org_users, userid, givenName, surname) ==
    IF org_users.kind = "list"
    THEN SelectSeq(org_users.v, LAMBDA user :
             IF Truthy(userid) /\ (DictGet(user, "id") = userid \/ DictGet(user, "userId") = userid)
             THEN TRUE
             ELSE IF Truthy(givenName) /\ Truthy(surname)
                  THEN DictGet(user, "givenName") = givenName /\ DictGet(user, "surname") = surname
                  ELSE IF Truthy(givenName) /\ DictGet(user, "givenName") = givenName
                       THEN TRUE
                       ELSE Truthy(surname) /\ DictGet(user, "surname") = surname)
    ELSE <<>>

\* re.search(pattern, text, re.IGNORECASE) on the names in use.
RegexSearch(pattern, text) == <<pattern, text>> \in {<<"sec", "Security">>}

\* The first label whose name matches, or None.
MatchingLabel(label_summaries, label_name) ==
    LET hits == IF label_summaries.kind = "list"
                THEN SelectSeq(label_summaries.v, LAMBDA label :
                         RegexSearch(label_name, PyFormat(DictGetDefault(label, "name", PyStr("")))))
                ELSE <<>>
    IN  IF hits = <<>> THEN PyNone ELSE Head(hits)

\* objectType / objectId filters a caller passes.
ObjectFilters == {[type |-> PyNone, id |-> PyNone],
                  [type |-> PyStr("control"), id |-> PyStr("12345")]}

\* params of get_organization_users() and get_label_summaries() as called here.
UsersParams ==
    PyDict([k \in {"expand", "includeDeactivated"} |->
              IF k = "expand" THEN PyNone ELSE PyBool(FALSE)])

LabelsParams == PyDict([k \in {"canLink", "status"} |-> PyNone])

\* Variant of the params that never carries a token.
LoopParamsFirstPage(lp, token) ==
    PageParams(lp.limit, lp.sort_by, lp.sort_direction, lp.object_type, lp.object_id, PyNone)

\* The params of the next page fetch.
LoopParams(lp, token) ==
    PageParams(lp.limit, lp.sort_by, lp.sort_direction, lp.object_type, lp.object_id, token)

\* What the operation returns after the loop.
ReturnValue(lp, acc, resp) ==
    CASE lp.op = "get_proof_metadata_collection" -> PyList(acc)
      [] lp.op = "get_proof_by_user"  -> PyList(UserProofs(acc, lp.users))
      [] lp.op = "get_proof_by_label" -> IF lp.raw THEN resp ELSE PyList(acc)

\* One pass through the body of the while loop, for the value client.get
\* returned: the accumulator and token afterwards, and how the pass ends.
Iteration(lp, acc, token, resp) ==
    LET err == IntegrityError(lp.op, resp)
    IN  IF err # "none"
        THEN [acc |-> acc, token |-> token, ppc |-> "done", outcome |-> Raised(err)]
        ELSE IF resp.kind # "dict"
             THEN [acc |-> acc, token |-> token, ppc |-> "done", outcome |-> Raised("AttributeError")]
             ELSE LET data == DictGetDefault(resp, "data", PyList(<<>>))
                  IN  IF data.kind # "list"
                      THEN [acc |-> acc, token |-> token, ppc |-> "done",
                            outcome |-> Raised("TypeError")]
                      ELSE LET acc2   == Extend(acc, data)
                               token2 == DictGet(resp, "continuationToken")
                           IN  IF LoopContinues(token2)
                               THEN [acc |-> acc2, token |-> token2, ppc |-> "fetch",
                                     outcome |-> Nothing]
                               ELSE [acc |-> acc2, token |-> token2, ppc |-> "done",
                                     outcome |-> Returned(ReturnValue(lp, acc2, resp))]

\* Entry of a loop: all_proofs = [], next_token = None.
EnterLoop(lp) ==
    /\ loop' = lp
    /\ ppc' = "fetch"
    /\ all_proofs' = <<>>
    /\ next_token' = PyNone
    /\ fetched' = <<>>
    /\ answers' = <<>>
    /\ pages' = <<>>
    /\ outcome' = Nothing
    /\ example' = Nothing

\* The operation ends before its loop is entered.
EndEarly(lp, how) ==
    /\ loop' = lp
    /\ ppc' = "done"
    /\ all_proofs' = <<>>
    /\ next_token' = PyNone
    /\ fetched' = <<>>
    /\ answers' = <<>>
    /\ pages' = <<>>
    /\ outcome' = how
    /\ example' = Nothing

LoopRecord(op, raw, limit, sort_by, sort_direction, object_type, object_id, org_users, users) ==
    [op |-> op, raw |-> raw, limit |-> limit, sort_by |-> sort_by,
     sort_direction |-> sort_direction, object_type |-> object_type,
     object_id |-> object_id, org_users |-> org_users, users |-> users]

\* ProofAPI.get_proof_metadata_collection up to its loop.
StartCollection ==
    /\ ppc = "idle"
    /\ \E filter \in ObjectFilters, raw \in BOOLEAN, limit \in {PyInt(500), PyStr("500")} :
          EnterLoop(LoopRecord("get_proof_metadata_collection", raw, limit,
                               PyStr("uploadedOn"), PyStr("desc"), filter.type, filter.id, Nothing, <<>>))
    /\ UNCHANGED clientVars

\* ProofAPI.get_proof_by_user up to its loop: the organization users are
\* fetched and filtered; raw returns them as they came, no match returns [].
StartByUser ==
    /\ ppc = "idle"
    /\ \E answer \in UsersAnswers, userid \in {PyNone, PyStr("u1")},
          givenName \in {PyNone, PyStr("Ann")}, surname \in {PyNone, PyStr("Smith")},
          filter \in ObjectFilters, raw \in BOOLEAN :
          LET got == ClientGet(UsersParams, answer, FALSE)
              lp(users) == LoopRecord("get_proof_by_user", raw, PyInt(500), PyStr("createdBy"),
                                      PyStr("desc"), filter.type, filter.id,
                                      IF got.kind = "raise" THEN Nothing ELSE got.value, users)
          IN  IF got.kind = "raise"
              THEN EndEarly(lp(<<>>), got)
              ELSE IF raw
                   THEN EndEarly(lp(<<>>), Returned(got.value))
                   ELSE IF got.value = PyNone
                        THEN EndEarly(lp(<<>>), Raised("TypeError"))
                        ELSE LET filtered == FilterUsers(got.value, userid, givenName, surname)
                             IN  IF filtered = <<>>
                                 THEN EndEarly(lp(<<>>), Returned(PyList(<<>>)))
                                 ELSE EnterLoop(lp(filtered))
    /\ UNCHANGED clientVars

\* ProofAPI.get_proof_by_label up to its loop: the label summaries are
\* fetched and searched for the first name that matches.
StartByLabel ==
    /\ ppc = "idle"
    /\ \E answer \in LabelsAnswers, label_name \in {"sec", "zzz"}, raw \in BOOLEAN :
          LET got == ClientGet(LabelsParams, answer, FALSE)
              lp(label_id) == LoopRecord("get_proof_by_label", raw, PyInt(500), PyStr("uploadedOn"),
                                         PyStr("desc"), PyStr("label"), label_id, Nothing, <<>>)
          IN  IF got.kind = "raise"
              THEN EndEarly(lp(PyNone), got)
              ELSE IF got.value = PyNone
                   THEN EndEarly(lp(PyNone), Raised("TypeError"))
                   ELSE LET matching_label == MatchingLabel(got.value, label_name)
                        IN  IF ~Truthy(matching_label)
                            THEN EndEarly(lp(PyNone), Raised("ValueError"))
                            ELSE EnterLoop(lp(DictGet(matching_label, "id")))
    /\ UNCHANGED clientVars

\* One pass of the while loop: build params, client.get, check, extend,
\* read the continuation token, break or go round again.
Fetch ==
    /\ ppc = "fetch"
    /\ Len(fetched) < MaxFetches
    /\ fetched' = Append(fetched, LoopParams(loop, next_token))
    /\ \E answer \in PageAnswers :
          LET got == ClientGet(LoopParams(loop, next_token), answer, FALSE)
          IN  /\ answers' = Append(answers, answer)
              /\ IF got.kind = "raise"
                 THEN /\ pages' = pages
                      /\ all_proofs' = all_proofs
                      /\ next_token' = next_token
                      /\ ppc' = "done"
                      /\ outcome' = got
                 ELSE LET pass == Iteration(loop, all_proofs, next_token, got.value)
                      IN  /\ pages' = Append(pages, got.value)
                          /\ all_proofs' = pass.acc
                          /\ next_token' = pass.token
                          /\ ppc' = pass.ppc
                          /\ outcome' = pass.outcome
    /\ UNCHANGED <<clientVars, loop, example>>

\* One pass of the while loop of example_proof.py on what
\* get_proof_metadata_collection did: an exception of the call propagates;
\* the example's check raises ValueError; response['data'] needs a mapping;
\* without a continuationToken the loop ends with the records gathered,
\* otherwise it goes round again ("again").
ExamplePass(ret) ==
    IF ret.kind = "raise"
    THEN ret
    ELSE LET resp == ret.value
         IN  IF ~Truthy(resp) \/ ~Contains(resp, "data")
             THEN Raised("ValueError")
             ELSE IF resp.kind # "dict"
                  THEN Raised("TypeError")
                  ELSE IF resp.v["data"].kind # "list"
                       THEN Raised("TypeError")
                       ELSE IF Truthy(DictGet(resp, "continuationToken"))
                            THEN [kind |-> "again"]
                            ELSE Returned(resp.v["data"])

\* example_proof.py, lines 17-51: the call with limit "500", object type
\* "control", object id "12345" and raw False, then the body of its loop.
ExampleScript ==
    /\ ppc = "done"
    /\ example = Nothing
    /\ loop.op = "get_proof_metadata_collection"
    /\ loop.limit = PyStr("500")
    /\ loop.object_type = PyStr("control")
    /\ loop.object_id = PyStr("12345")
    /\ ~loop.raw
    /\ example' = ExamplePass(outcome)
    /\ UNCHANGED <<clientVars, loop, ppc, all_proofs, next_token, fetched, answers, pages, outcome>>

PageNext ==
    \/ StartCollection
    \/ StartByUser
    \/ StartByLabel
    \/ Fetch
    \/ ExampleScript

PageSpec == Init /\ [][PageNext]_vars

-----------------------------------------------------------------------------
(* The by-user wrappers of TasksAPI, ControlsAPI, LabelsAPI and RisksAPI *)

\* What a wrapper call leaves alone.
wrapperFrame == <<pageVars, client_id, client_secret, access_token, pc, call, slotAtEntry, auth,
                  issued, headers, sent, response, result, headerCalls, tokenReqs, resReqs,
                  calls, threads>>

\* client.put as its caller sees it.
ClientPut(data, answer, raw) ==
    IF ~JsonSerializable(data)
    THEN Raised("TypeError")
    ELSE IF answer.kind = "error"
         THEN VerbExcept(answer.exc)
         ELSE Returned(_handle_response(answer, raw))

\* The elements a for loop visits, for a list and for an empty mapping.
Iter(v) == IF v.kind = "list" THEN v.v ELSE <<>>

ErrorDict(message) == PyDict([k \in {"error"} |-> PyStr(message)])

\* The filtered_users of get_tasks_by_user: its user_id is compared with
\* 'userId' only.
TasksFilterUsers(users, user_id, first_name, surname) ==
    SelectSeq(Iter(users), LAMBDA user :
        IF Truthy(user_id) /\ DictGet(user, "userId") = user_id
        THEN TRUE
        ELSE IF Truthy(first_name) /\ Truthy(surname)
             THEN DictGet(user, "givenName") = first_name /\ DictGet(user, "surname") = surname
             ELSE IF Truthy(first_name) /\ DictGet(user, "givenName") = first_name
                  THEN TRUE
                  ELSE Truthy(surname) /\ DictGet(user, "surname") = surname)

\* The data filter_tasks builds for assignee_ids=[id], target_object_type="domain".
FilterTasksData(id) ==
    PyDict([k \in {"targetObjectType", "assigneeIds"} |->
              IF k = "targetObjectType" THEN PyStr("domain") ELSE PyList(<<id>>)])

\* all_tasks after the loop over the filtered users, tasks[i] being what
\* filter_tasks returned for the i-th of them: "if tasks: extend".
RECURSIVE GatherTasks(_, _)
GatherTasks(n, tasks) ==
    IF n = 0
    THEN <<>>
    ELSE GatherTasks(n - 1, tasks) \o (IF Truthy(tasks[n]) THEN Iter(tasks[n]) ELSE <<>>)

\* TasksAPI.get_tasks_by_user, given what get_organization_users returned
\* and what filter_tasks returned per filtered user.  len(users) in the
\* first log line raises TypeError on None.
TasksByUser(users, user_id, first_name, surname, tasks) ==
    IF users = PyNone
    THEN Raised("TypeError")
    ELSE LET filtered_users == TasksFilterUsers(users, user_id, first_name, surname)
         IN  IF filtered_users = <<>>
             THEN Returned(ErrorDict("No users found matching the given criteria"))
             ELSE LET all_tasks == GatherTasks(Len(filtered_users), tasks)
                  IN  IF all_tasks = <<>>
                      THEN Returned(ErrorDict("No tasks found for the specified user(s)"))
                      ELSE Returned(PyList(all_tasks))

\* The records, in order, whose key (keys[i] for items[i]) equals the id or
\* the userId of a filtered user; each record at most once (break).
Matching(items, keys, users) ==
    LET hits == SelectSeq([i \in 1..Len(items) |-> i], LAMBDA i :
                    \E j \in 1..Len(users) :
                        \/ keys[i] = DictGet(users[j], "id")
                        \/ keys[i] = DictGet(users[j], "userId"))
    IN  [n \in 1..Len(hits) |-> items[hits[n]]]

\* control.get('owner', {}).get('id')
ControlOwnerId(control) == DictGet(DictGetDefault(control, "owner", EmptyDict), "id")

\* ControlsAPI.get_controls_by_user, given the users and the controls fetched.
ControlsByUser(org_users, userid, givenName, surname, raw, all_controls) ==
    IF raw
    THEN Returned(org_users)
    ELSE IF org_users = PyNone
         THEN Raised("TypeError")
         ELSE LET filtered_users == FilterUsers(org_users, userid, givenName, surname)
              IN  IF filtered_users = <<>>
                  THEN Returned(PyList(<<>>))
                  ELSE IF all_controls = PyNone
                       THEN Raised("TypeError")
                       ELSE LET controls == Iter(all_controls)
                                owners == [i \in 1..Len(controls) |-> ControlOwnerId(controls[i])]
                            IN  Returned(PyList(Matching(controls, owners, filtered_users)))

\* LabelsAPI.get_labels_by_user and RisksAPI.get_risks_by_user, given the
\* users, the records fetched, the field that names their user and what
\* client.get(..., raw=True) returned.
ItemsByUser(org_users, userid, givenName, surname, raw, items, field, raw_response) ==
    IF org_users = PyNone
    THEN Raised("TypeError")
    ELSE LET filtered_users == FilterUsers(org_users, userid, givenName, surname)
         IN  IF filtered_users = <<>>
             THEN Returned(IF raw THEN raw_response ELSE PyList(<<>>))
             ELSE IF items = PyNone
                  THEN Raised("TypeError")
                  ELSE LET records == Iter(items)
                           keys == [i \in 1..Len(records) |-> DictGet(records[i], field)]
                       IN  Returned(IF raw
                                    THEN raw_response
                                    ELSE PyList(Matching(records, keys, filtered_users)))

\* The arguments that select users.
UserIdArgs == {PyNone, PyStr("u1")}

GivenNameArgs == {PyNone, PyStr("Ann")}

SurnameArgs == {PyNone, PyStr("Smith")}

WrapperRecord(op, raw, org_users, how) ==
    [op |-> op, raw |-> raw, org_users |-> org_users, outcome |-> how]

\* TasksAPI.get_tasks_by_user
GetTasksByUser ==
    /\ wrapper = Nothing
    /\ ppc = "idle"
    /\ \E users \in UsersAnswers, user_id \in UserIdArgs, first_name \in GivenNameArgs,
          surname \in SurnameArgs, t1 \in ItemAnswers(BodyTasks), t2 \in ItemAnswers(BodyTasks) :
          LET org_users == ClientGet(UsersParams, users, FALSE).value
              tasks == <<ClientPut(FilterTasksData(PyStr("u1")), t1, FALSE).value,
                         ClientPut(FilterTasksData(PyStr("u2")), t2, FALSE).value>>
          IN  wrapper' = WrapperRecord("get_tasks_by_user", FALSE, org_users,
                                       TasksByUser(org_users, user_id, first_name, surname, tasks))
    /\ UNCHANGED wrapperFrame

\* ControlsAPI.get_controls_by_user
GetControlsByUser ==
    /\ wrapper = Nothing
    /\ ppc = "idle"
    /\ \E users \in UsersAnswers, userid \in UserIdArgs, givenName \in GivenNameArgs,
          surname \in SurnameArgs, raw \in BOOLEAN, controls \in ItemAnswers(BodyControls) :
          LET org_users == ClientGet(UsersParams, users, FALSE).value
              all_controls == ClientGet(PyNone, controls, FALSE).value
          IN  wrapper' = WrapperRecord("get_controls_by_user", raw, org_users,
                                       ControlsByUser(org_users, userid, givenName, surname, raw,
                                                      all_controls))
    /\ UNCHANGED wrapperFrame

\* LabelsAPI.get_labels_by_user
GetLabelsByUser ==
    /\ wrapper = Nothing
    /\ ppc = "idle"
    /\ \E users \in UsersAnswers, userid \in UserIdArgs, givenName \in GivenNameArgs,
          surname \in SurnameArgs, raw \in BOOLEAN, labels \in ItemAnswers(BodyUserLabels),
          again \in ItemAnswers(BodyUserLabels) :
          LET org_users == ClientGet(UsersParams, users, FALSE).value
              all_labels == ClientGet(PyNone, labels, FALSE).value
              raw_response == ClientGet(PyNone, again, TRUE).value
          IN  wrapper' = WrapperRecord("get_labels_by_user", raw, org_users,
                                       ItemsByUser(org_users, userid, givenName, surname, raw,
                                                   all_labels, "createdBy", raw_response))
    /\ UNCHANGED wrapperFrame

\* RisksAPI.get_risks_by_user
GetRisksByUser ==
    /\ wrapper = Nothing
    /\ ppc = "idle"
    /\ \E users \in UsersAnswers, userid \in UserIdArgs, givenName \in GivenNameArgs,
          surname \in SurnameArgs, raw \in BOOLEAN, risks \in ItemAnswers(BodyRisks),
          again \in ItemAnswers(BodyRisks) :
          LET org_users == ClientGet(UsersParams, users, FALSE).value
              all_risks == ClientGet(PyNone, risks, FALSE).value
              raw_response == ClientGet(PyNone, again, TRUE).value
          IN  wrapper' = WrapperRecord("get_risks_by_user", raw, org_users,
                                       ItemsByUser(org_users, userid, givenName, surname, raw,
                                                   all_risks, "ownerId", raw_response))
    /\ UNCHANGED wrapperFrame

WrapperNext ==
    \/ GetTasksByUser
    \/ GetControlsByUser
    \/ GetLabelsByUser
    \/ GetRisksByUser
    \/ StartByUser
    \/ Fetch

WrapperSpec == Init /\ [][WrapperNext]_vars

-----------------------------------------------------------------------------
(* Vocabulary of the properties *)

\* The headers a request bearing the token string t must carry.
ExpectedHeaders(t) ==
    PyDict([k \in {"Authorization", "Content-Type"} |->
              IF k = "Authorization" THEN PyStr("Bearer " \o t) ELSE PyStr("application/json")])

\* The token endpoint said no: a status other than 200 or a transport failure.
AuthRefused(answer) ==
    \/ answer.kind = "error"
    \/ answer.kind = "response" /\ answer.status # 200

\* The token endpoint answered 200 and its body is a JSON object with the
\* field access_token.
CarriesToken(answer) ==
    /\ answer.kind = "response"
    /\ answer.status = 200
    /\ JsonLoads(answer.text).ok
    /\ JsonLoads(answer.text).v.kind = "dict"
    /\ "access_token" \in DOMAIN JsonLoads(answer.text).v.v

TokenIn(answer) == JsonLoads(answer.text).v.v["access_token"]

\* A verb call that got an answer from the resource server.
Answered ==
    /\ call.op \in Verbs
    /\ response # Nothing
    /\ response.kind = "response"

-----------------------------------------------------------------------------
(* C1 *)

\* C1: when the slot is absent (None) at the entry of _get_headers(), that
\* call makes exactly one request to the token endpoint, and makes it before
\* the headers exist: none while the attempt is pending, one ever after, on
\* every call, the second call of a failing client included.
C1_OneAttemptBeforeHeaders ==
    slotAtEntry = PyNone =>
        /\ pc = "authenticate" => (tokenReqs = 0 /\ headers = Nothing)
        /\ pc # "authenticate" => tokenReqs = 1
        /\ headers # Nothing => tokenReqs = 1

C1_Witness ==
    /\ calls = 2
    /\ call.op \in Verbs
    /\ slotAtEntry = PyNone
    /\ access_token = PyNone
    /\ pc = "idle"
    /\ headers # Nothing
    /\ tokenReqs = 1
    /\ resReqs = 1

-----------------------------------------------------------------------------
(* C2 *)

\* C2 as stated: once any token value (the empty string included) has been
\* stored by an authentication, no later step asks the token endpoint again.
C2_AnyTokenNeverReauth ==
    [][issued # {} => (pc' # "authenticate" /\ tokenReqs' # tokenReqs + 1)]_vars

\* C2 amended: once a non-empty token has been stored by an authentication,
\* no later step enters _authenticate() or issues a token request.
C2_NonEmptyTokenNeverReauth ==
    [][(\E t \in issued : Truthy(t)) =>
          (pc' # "authenticate" /\ tokenReqs' # tokenReqs + 1)]_vars

C2_Witness ==
    /\ \E t \in issued : Truthy(t)
    /\ calls = 2
    /\ call.op \in Verbs
    /\ pc = "send"
    /\ tokenReqs = 0
    /\ slotAtEntry = access_token

-----------------------------------------------------------------------------
(* C3 *)

\* C3: after a token exchange that ended with a status other than 200 or
\* with a transport failure, _authenticate() has returned normally and the
\* slot is None.
C3_RefusedAuthLeavesSlotAbsent ==
    (auth # Nothing /\ AuthRefused(auth.answer)) =>
        /\ auth.raised = "none"
        /\ access_token = PyNone
        /\ call.op \in Verbs /\ tokenReqs = 1 => pc \in {"build_headers", "send", "idle"}

C3_Witness ==
    /\ auth # Nothing
    /\ auth.answer.kind = "error"
    /\ slotAtEntry = PyStr("")
    /\ access_token = PyNone
    /\ pc = "build_headers"

-----------------------------------------------------------------------------
(* C4 *)

\* C4 as stated: when the latest token exchange answered 200 with a JSON
\* body whose access_token is t, the slot equals t, no further authentication
\* is entered, and the headers built are exactly Bearer t + application/json.
C4_AnyTokenStoredAndSent ==
    (auth # Nothing /\ CarriesToken(auth.answer)) =>
        /\ access_token = TokenIn(auth.answer)
        /\ pc # "authenticate"
        /\ headers # Nothing => headers = ExpectedHeaders(PyFormat(TokenIn(auth.answer)))

\* C4 amended: when the latest token exchange answered 200 with content type
\* application/json and a JSON object whose access_token is a non-empty
\* string t, the slot equals t, no further authentication is entered, and
\* the headers built are exactly Bearer t + application/json.
C4_NonEmptyTokenStoredAndSent ==
    (/\ auth # Nothing
     /\ CarriesToken(auth.answer)
     /\ IsJsonContentType(auth.answer.ctype)
     /\ TokenIn(auth.answer).kind = "str"
     /\ TokenIn(auth.answer).v # "") =>
        /\ access_token = TokenIn(auth.answer)
        /\ pc # "authenticate"
        /\ headers # Nothing => headers = ExpectedHeaders(TokenIn(auth.answer).v)

C4_Witness ==
    /\ auth # Nothing
    /\ auth.answer.kind = "response"
    /\ auth.answer.text = BodyTok1
    /\ access_token = PyStr("tok1")
    /\ calls >= 1
    /\ tokenReqs = 0
    /\ call.op = "_get_headers"
    /\ pc = "idle"
    /\ result = Returned(ExpectedHeaders("tok1"))

-----------------------------------------------------------------------------
(* C5 *)

-----------------------------------------------------------------------------
(* C6 *)

\* C6: a verb call whose resource request failed at transport level has
\* returned None; it has not raised.
C6_TransportFailureYieldsNone ==
    (call.op \in Verbs /\ response # Nothing /\ response.kind = "error") =>
        result = Returned(PyNone)

C6_Witness ==
    /\ call.op = "patch"
    /\ response # Nothing
    /\ response.kind = "error"
    /\ response.exc = "Timeout"
    /\ pc = "idle"
    /\ result = Returned(PyNone)

-----------------------------------------------------------------------------
(* C7 *)

\* C7: every finished get/post/put/patch call has returned a value; none
\* has raised, whatever its arguments.
C7_NoExceptionEscapes ==
    (call.op \in Verbs /\ pc = "idle" /\ result # Nothing) => result.kind = "return"

-----------------------------------------------------------------------------
(* C8 *)

\* C8: a verb call answered with a status in 400..599 has returned None,
\* with raw set or not, whatever the content type and the body.
C8_ErrorStatusYieldsNone ==
    (Answered /\ response.status >= 400 /\ response.status <= 599) =>
        result = Returned(PyNone)

C8_Witness ==
    /\ Answered
    /\ call.op = "get"
    /\ call.raw
    /\ response.status = 403
    /\ response.text = BodyNoField
    /\ result = Returned(PyNone)

-----------------------------------------------------------------------------
(* C9 *)

\* The value C9 prescribes for a parsed call: the JSON value of the body
\* when it is labelled application/json and parses, else the empty mapping.
ParsedOrEmpty(resp) ==
    IF IsJsonContentType(resp.ctype) /\ JsonLoads(resp.text).ok
    THEN JsonLoads(resp.text).v
    ELSE EmptyDict

\* C9 as stated: a call with raw=False answered with a non-error status
\* never returns None; it returns the parsed value or the empty mapping.
C9_ParsedNeverAbsent ==
    (Answered /\ ~call.raw /\ ~(response.status >= 400 /\ response.status <= 599)) =>
        /\ result.kind = "return"
        /\ result.value # PyNone
        /\ result.value = ParsedOrEmpty(response)

\* C9 amended: a call with raw=False answered with a non-error status
\* returns the parsed value or the empty mapping, and that is None only when
\* the body labelled application/json is the JSON literal null; the empty
\* mapping differs from the None returned for a 404.
C9_ParsedAbsentOnlyForNull ==
    (Answered /\ ~call.raw /\ ~(response.status >= 400 /\ response.status <= 599)) =>
        /\ result.kind = "return"
        /\ result.value = ParsedOrEmpty(response)
        /\ result.value = PyNone <=>
              (IsJsonContentType(response.ctype) /\ response.text = BodyNull)
        /\ (~IsJsonContentType(response.ctype) \/ ~JsonLoads(response.text).ok) =>
              (result.value = EmptyDict /\ Truthy(result.value) = FALSE /\ result.value.kind = "dict")

C9_Witness ==
    /\ Answered
    /\ ~call.raw
    /\ response.status = 200
    /\ IsJsonContentType(response.ctype)
    /\ response.text = BodyHtml
    /\ result = Returned(EmptyDict)

-----------------------------------------------------------------------------
(* C10 *)

\* C10: on a non-error answer a call with raw=True returns the body text
\* unparsed whatever the content type, and a call with raw=False on a JSON
\* answer returns the parsed structure.
C10_RawVersusParsed ==
    (Answered /\ ~(response.status >= 400 /\ response.status <= 599)) =>
        /\ call.raw => result = Returned(PyStr(response.text))
        /\ (~call.raw /\ IsJsonContentType(response.ctype) /\ JsonLoads(response.text).ok) =>
              result = Returned(JsonLoads(response.text).v)

C10_Witness ==
    /\ Answered
    /\ call.raw
    /\ response.status = 200
    /\ IsJsonContentType(response.ctype)
    /\ response.text = BodyNoField
    /\ result = Returned(PyStr(BodyNoField))

-----------------------------------------------------------------------------
(* C14 *)

\* C14: in the query string get transmits, a key the caller passed with the
\* value None does not appear at all, and every other key appears with the
\* caller's value; the first request of a pagination loop carries limit,
\* sortBy and sortDirection only.
C14_NilParamsOmitted ==
    (sent # Nothing /\ sent.method = "GET" /\ call.arg.kind = "dict") =>
        \A k \in DOMAIN call.arg.v :
            /\ call.arg.v[k] = PyNone => k \notin DOMAIN QueryString(sent.params)
            /\ call.arg.v[k] # PyNone =>
                  /\ k \in DOMAIN QueryString(sent.params)
                  /\ QueryString(sent.params)[k] = PyFormat(call.arg.v[k])

C14_Witness ==
    /\ sent # Nothing
    /\ sent.method = "GET"
    /\ call.arg = FirstPageParams
    /\ DOMAIN QueryString(sent.params) = {"limit", "sortBy", "sortDirection"}
    /\ QueryString(sent.params)["limit"] = "500"

-----------------------------------------------------------------------------
(* C15 *)

\* C15: the request post sends carries the files and no JSON body when the
\* files argument is non-empty, whatever data is, and carries data as its
\* JSON body and no files when the files argument is None or empty.
C15_FilesExcludeJson ==
    (call.op = "post" /\ sent # Nothing) =>
        /\ Truthy(call.files) => (sent.files = call.files /\ sent.json = PyNone)
        /\ ~Truthy(call.files) => (sent.json = call.arg /\ sent.files = PyNone)

C15_Witness ==
    /\ call.op = "post"
    /\ call.via = "client"
    /\ call.files = ProofFiles
    /\ call.arg = PyDict([k \in {"title"} |-> PyStr("t")])
    /\ sent # Nothing
    /\ sent.files = ProofFiles
    /\ sent.json = PyNone

-----------------------------------------------------------------------------
(* C16 *)

\* The fields a request carries besides its files.
SiblingFields(req) == IF req.json.kind = "dict" THEN req.json.v ELSE <<>>

\* C16: the request add_task_proof sends carries the file and, next to it,
\* every provenance field with the value the caller supplied.
C16_ProvenanceTransmitted ==
    (call.via = "add_task_proof" /\ sent # Nothing) =>
        /\ sent.files = ProofFiles
        /\ \A k \in DOMAIN call.arg.v :
              /\ k \in DOMAIN SiblingFields(sent)
              /\ SiblingFields(sent)[k] = call.arg.v[k]

-----------------------------------------------------------------------------
(* C17 *)

\* C17: a finished delete_task_comment call has sent one request and has
\* returned an envelope; it has not raised.
C17_DeleteReturnsEnvelope ==
    (call.via = "delete_task_comment" /\ pc = "idle") =>
        /\ result.kind = "return"
        /\ resReqs = 1

-----------------------------------------------------------------------------
(* C18 *)

\* C18: every finished _get_headers() call has returned a mapping with
\* exactly Authorization and Content-Type: application/json, and after a
\* re-authentication that left the slot None the Authorization value is
\* "Bearer " followed by nothing.
C18_HeadersAlwaysReturned ==
    (call.op = "_get_headers" /\ pc = "idle") =>
        /\ result.kind = "return"
        /\ result.value.kind = "dict"
        /\ DOMAIN result.value.v = {"Authorization", "Content-Type"}
        /\ result.value.v["Content-Type"] = PyStr("application/json")
        /\ (tokenReqs = 1 /\ access_token = PyNone) =>
              result.value.v["Authorization"] = PyStr("Bearer ")

-----------------------------------------------------------------------------
(* C19 *)

\* C19: a verb call that is about to send, or has sent, its resource request
\* has called _get_headers() exactly once, before any request went out; the
\* request carries the headers of that call, built from the slot as it is
\* after the re-authentication, so a token obtained in this call is the one
\* the request bears.
C19_HeadersFreshPerCall ==
    /\ (call.op \in Verbs /\ pc = "send") =>
          (headerCalls = 1 /\ headers # Nothing /\ resReqs = 0 /\ sent = Nothing)
    /\ (call.op \in Verbs /\ sent # Nothing) =>
          /\ headerCalls = 1
          /\ sent.headers = headers
          /\ sent.headers = ExpectedHeaders(PyFormat(access_token))
          /\ (tokenReqs = 1 /\ CarriesToken(auth.answer)
                /\ IsJsonContentType(auth.answer.ctype)) =>
                sent.headers = ExpectedHeaders(PyFormat(TokenIn(auth.answer)))

C19_Witness ==
    /\ calls = 2
    /\ call.op \in Verbs
    /\ slotAtEntry = PyNone
    /\ tokenReqs = 1
    /\ access_token = PyStr("tok2")
    /\ sent # Nothing
    /\ sent.headers = ExpectedHeaders("tok2")
    /\ resReqs = 1

-----------------------------------------------------------------------------
(* C20 *)

\* What the normalizer makes of an answer: None on 400..599, else the text
\* when raw, else the parsed value or the empty mapping.
Normalized(resp, raw) ==
    IF resp.status >= 400 /\ resp.status <= 599
    THEN PyNone
    ELSE IF raw THEN PyStr(resp.text) ELSE ParsedOrEmpty(resp)

\* C20: in a verb call whose authentication was refused the slot is None and
\* the call goes on: it sends its one resource request, with a bearer value
\* that is no issued token, and returns what the normalizer makes of the
\* answer, None for a 401.
C20_RefusedAuthStillSends ==
    (call.op \in Verbs /\ tokenReqs = 1 /\ AuthRefused(auth.answer)) =>
        /\ access_token = PyNone
        /\ pc \in {"build_headers", "send", "idle"}
        /\ pc = "idle" =>
              /\ resReqs = 1
              /\ sent # Nothing
              /\ \A t \in issued : Truthy(t) => sent.headers # ExpectedHeaders(t.v)
              /\ response.kind = "response" => result = Returned(Normalized(response, call.raw))
              /\ (response.kind = "response" /\ response.status = 401) => result = Returned(PyNone)

C20_Witness ==
    /\ call.op = "get"
    /\ tokenReqs = 1
    /\ auth.answer.kind = "response"
    /\ auth.answer.status = 401
    /\ access_token = PyNone
    /\ pc = "idle"
    /\ resReqs = 1
    /\ response.kind = "response"
    /\ response.status = 401
    /\ result = Returned(PyNone)

-----------------------------------------------------------------------------
(* Vocabulary of the pagination properties *)

\* A page that carries a list of records under "data".
GoodPage(p) == p.kind = "dict" /\ "data" \in DOMAIN p.v /\ p.v["data"].kind = "list"

\* A page that is absent or lacks the data field.
LacksData(p) == IF p.kind = "dict" THEN "data" \notin DOMAIN p.v ELSE TRUE

\* The continuation field of a page, None when there is none.
TokenOf(p) ==
    IF p.kind = "dict" /\ "continuationToken" \in DOMAIN p.v
    THEN p.v["continuationToken"]
    ELSE PyNone

AbsentOrEmpty(token) == token \in {PyNone, PyStr("")}

\* The records of a page, in the server's order.
Records(p) == IF GoodPage(p) THEN p.v["data"].v ELSE <<>>

\* Page 1's records followed by page 2's, and so on.
RECURSIVE Concat(_)
Concat(ps) == IF ps = <<>> THEN <<>> ELSE Records(Head(ps)) \o Concat(Tail(ps))

LastPage == pages[Len(pages)]

-----------------------------------------------------------------------------
(* C11: in each of the three pagination loops the accumulator is, at every
   moment, the records of the pages received so far, page after page in the
   server's order, nothing duplicated, dropped or added; where the operation
   returns the accumulator itself (get_proof_metadata_collection, and
   get_proof_by_label without raw) the returned list is that concatenation. *)
C11_AccumulatesPagesInOrder ==
    /\ all_proofs = Concat(pages)
    /\ (/\ ppc = "done"
        /\ outcome.kind = "return"
        /\ pages # <<>>
        /\ \/ loop.op = "get_proof_metadata_collection"
           \/ loop.op = "get_proof_by_label" /\ ~loop.raw)
       => outcome.value = PyList(Concat(pages))

\* Three pages of two, one and one records were received and accumulated.
C11_Witness ==
    /\ ppc = "done"
    /\ outcome.kind = "return"
    /\ Len(pages) = 3
    /\ all_proofs = <<Proof1, Proof2, Proof3, Proof4>>

(* C12: a pagination loop stops exactly at the first page whose
   continuationToken is absent or empty: every page before the last one
   carried a non-empty token, one fetch was issued per page, a loop that is
   still fetching has just seen a non-empty token, and a page that passed the
   check ends the loop with a return exactly when its token is absent or
   empty. *)
C12_StopsAtFirstEmptyToken ==
    /\ Len(fetched) = Len(pages)
    /\ \A i \in 1..(Len(pages) - 1) : GoodPage(pages[i]) /\ ~AbsentOrEmpty(TokenOf(pages[i]))
    /\ (ppc = "fetch" /\ pages # <<>>) => GoodPage(LastPage) /\ ~AbsentOrEmpty(TokenOf(LastPage))
    /\ (pages # <<>> /\ GoodPage(LastPage))
       => ((ppc = "done" /\ outcome.kind = "return") <=> AbsentOrEmpty(TokenOf(LastPage)))

\* A page with a token and then a page without: two fetches, then the return.
C12_Witness ==
    /\ ppc = "done"
    /\ outcome.kind = "return"
    /\ Len(fetched) = 2
    /\ TokenOf(pages[1]) = PyStr("t1")
    /\ "continuationToken" \notin DOMAIN pages[2].v

(* C13: in each pagination loop a page that is absent or lacks the data
   field is the last page fetched: the operation has ended by raising the
   error of its page check (ValueError; PermissionError for an absent page in
   get_proof_by_label), no fetch follows it, and nothing is returned. *)
C13_MissingDataIsTerminal ==
    \A i \in 1..Len(pages) :
        LacksData(pages[i])
        => /\ i = Len(pages)
           /\ Len(fetched) = Len(pages)
           /\ ppc = "done"
           /\ outcome = Raised(IF loop.op = "get_proof_by_label" /\ pages[i] = PyNone
                               THEN "PermissionError"
                               ELSE "ValueError")

\* A later page came without data after records had been accumulated.
C13_Witness ==
    /\ Len(pages) = 2
    /\ LacksData(pages[2])
    /\ all_proofs # <<>>
    /\ ppc = "done"
    /\ outcome.kind = "raise"

-----------------------------------------------------------------------------
(* C21 *)

\* The resource request of this call failed: a transport failure, or a
\* status raise_for_status() rejects.
HttpFailed ==
    /\ response # Nothing
    /\ \/ response.kind = "error"
       \/ response.kind = "response" /\ response.status \in 400..599

\* The token request of this call did not yield a token.
AuthFailedInCall ==
    /\ tokenReqs = 1
    /\ auth # Nothing
    /\ AuthRefused(auth.answer) \/ auth.raised # "none"

\* C21: nothing retries.  A get/post/put/patch call issues at most one
\* token request and at most one resource request whatever the answers; a
\* failed resource request ends the call with None; a failed authentication
\* leaves the slot None and never makes the verb raise, and when the
\* authentication itself raised the call ends with None without a resource
\* request.
C21_NoRetryFailuresSurfaceAbsent ==
    call.op \in Verbs =>
        /\ tokenReqs <= 1
        /\ resReqs <= 1
        /\ HttpFailed => (pc = "idle" /\ result = Returned(PyNone) /\ resReqs = 1)
        /\ AuthFailedInCall =>
              /\ access_token = PyNone \/ auth.raised # "none"
              /\ pc = "idle" => result.kind = "return"
              /\ auth.raised # "none" => (result = Returned(PyNone) /\ resReqs = 0)

\* A call whose authentication was refused and whose resource request then
\* failed: one request each, None returned.
C21_Witness ==
    /\ call.op \in Verbs
    /\ pc = "idle"
    /\ AuthFailedInCall
    /\ AuthRefused(auth.answer)
    /\ HttpFailed
    /\ tokenReqs = 1
    /\ resReqs = 1
    /\ result = Returned(PyNone)

-----------------------------------------------------------------------------
(* C22 *)

\* The token exchange did not deliver a token: refused, raised, or a 200
\* answer without a usable access_token.
AuthWentWrong ==
    \/ AuthRefused(auth.answer)
    \/ auth.raised # "none"
    \/ ~IsJsonContentType(auth.answer.ctype)
    \/ ~CarriesToken(auth.answer)

\* C22: the constructor makes exactly one authentication attempt and
\* returns normally; whatever went wrong in the attempt, the slot is None
\* when it returns; the credentials are the ones given at construction in
\* every state, and every token request carried them.
C22_ConstructionNeverRaises ==
    /\ pc = "init" => (tokenReqs = 0 /\ auth = Nothing)
    /\ (pc = "idle" /\ calls = 0) =>
          /\ tokenReqs = 1
          /\ auth # Nothing
          /\ result = Returned(PyNone)
          /\ AuthWentWrong => access_token = PyNone
    /\ client_id = GivenClientId
    /\ client_secret = GivenClientSecret
    /\ auth # Nothing => auth.params = AuthParams(GivenClientId, GivenClientSecret)

\* Construction has completed after an attempt in which _authenticate()
\* raised (a 200 answer whose JSON body is not an object).
C22_Witness ==
    /\ pc = "idle"
    /\ calls = 0
    /\ auth # Nothing
    /\ auth.raised = "AttributeError"
    /\ access_token = PyNone
    /\ result = Returned(PyNone)

-----------------------------------------------------------------------------
(* C23 *)

\* C23: when get_proof_metadata_collection, called as example_proof.py calls
\* it, returned with at least one proof gathered, the example's pass over the
\* returned value does not raise: the value passes the example's check and
\* its 'data' entry holds the proofs.
C23_ExampleWorks ==
    (/\ example # Nothing
     /\ outcome.kind = "return"
     /\ all_proofs # <<>>)
    => /\ example.kind # "raise"
       /\ example.kind = "return" => example.value = PyList(all_proofs)

-----------------------------------------------------------------------------
(* C24 *)

\* C24: in each pagination loop the first fetch carries nextToken None and
\* fetch i+1 carries exactly the continuationToken of response i; every fetch
\* has been answered before the next one is issued, and the token the next
\* fetch will carry is the one of the latest response.
C24_TokenThreading ==
    /\ Len(fetched) = Len(pages)
    /\ \A i \in 1..Len(fetched) :
          fetched[i].v["nextToken"] = IF i = 1 THEN PyNone ELSE TokenOf(pages[i - 1])
    /\ (ppc = "fetch" /\ pages # <<>>) => next_token = TokenOf(LastPage)

\* Three fetches: None, then "t1" from the first page, then "t2" from the
\* second.
C24_Witness ==
    /\ Len(fetched) = 3
    /\ fetched[1].v["nextToken"] = PyNone
    /\ fetched[2].v["nextToken"] = PyStr("t1")
    /\ fetched[3].v["nextToken"] = PyStr("t2")
    /\ loop.op = "get_proof_by_user"

-----------------------------------------------------------------------------
(* C25 *)

\* Every page received so far carried records and a non-empty token.
AllPagesContinue ==
    \A i \in 1..Len(pages) : GoodPage(pages[i]) /\ ~AbsentOrEmpty(TokenOf(pages[i]))

\* C25: the loop has no bound of its own.  After any number of pages that
\* all carried a non-empty continuationToken (the same one each time
\* included) the loop is still fetching, and a loop that has ended after a
\* page ended on a page whose continuationToken is absent or empty or on a
\* page that fails the check: nothing else stops it.
C25_NoIterationBound ==
    /\ (pages # <<>> /\ AllPagesContinue) => (ppc = "fetch" /\ outcome = Nothing)
    /\ (ppc = "done" /\ pages # <<>>) =>
          (AbsentOrEmpty(TokenOf(LastPage)) \/ LacksData(LastPage))
    /\ ppc = "fetch" => AllPagesContinue

\* The server has answered every fetch the model allows with the same page
\* and the same token, and the loop is about to fetch again.
C25_Witness ==
    /\ Len(pages) = MaxFetches
    /\ \A i \in 1..Len(pages) : TokenOf(pages[i]) = PyStr("t1")
    /\ ppc = "fetch"
    /\ next_token = PyStr("t1")

-----------------------------------------------------------------------------
(* C26 *)

\* The server's answer made client.get return None: a transport failure or
\* a status raise_for_status() rejects.
AnswerAbsent(answer) ==
    \/ answer.kind = "error"
    \/ answer.kind = "response" /\ answer.status \in 400..599

\* C26: in get_proof_by_label a page fetch answered with a 403, another 4xx,
\* a 5xx or a transport failure, on the first page or a later one, ends the
\* operation with PermissionError; so does any other cause of a None
\* response; a response that is present and lacks 'data', the empty mapping
\* included, ends it with ValueError.
C26_LabelAbsentIsForbidden ==
    (loop # Nothing /\ loop.op = "get_proof_by_label") =>
        \A i \in 1..Len(pages) :
            /\ AnswerAbsent(answers[i]) => pages[i] = PyNone
            /\ pages[i] = PyNone => (i = Len(pages) /\ outcome = Raised("PermissionError"))
            /\ (pages[i] # PyNone /\ LacksData(pages[i]))
                  => (i = Len(pages) /\ outcome = Raised("ValueError"))

\* A second page answered with status 500 reported as PermissionError.
C26_Witness ==
    /\ loop # Nothing
    /\ loop.op = "get_proof_by_label"
    /\ Len(pages) = 2
    /\ answers[2].kind = "response"
    /\ answers[2].status = 500
    /\ outcome = Raised("PermissionError")

-----------------------------------------------------------------------------
(* C27 *)

\* C27: for every status-200 answer of the token endpoint to the
\* authentication of a verb call, _authenticate() has returned normally; the
\* slot holds the access_token field when the body is a JSON object
\* containing it (and the content type is JSON) and is None otherwise; and
\* the verb call, once finished, has sent its resource request.
C27_Status200AlwaysReturns ==
    (/\ call.op \in Verbs
     /\ tokenReqs = 1
     /\ auth # Nothing
     /\ auth.answer.kind = "response"
     /\ auth.answer.status = 200)
    => /\ auth.raised = "none"
       /\ access_token = IF IsJsonContentType(auth.answer.ctype) /\ CarriesToken(auth.answer)
                         THEN TokenIn(auth.answer)
                         ELSE PyNone
       /\ pc = "idle" => resReqs = 1

-----------------------------------------------------------------------------
(* C28 *)

\* C28: the JSON body sent by post (without files), put and patch has one
\* member per key of the mapping the caller passed, a None value written as
\* null; update_task called with a title only sends all nine fields, eight
\* of them null.
C28_JsonBodyKeepsNil ==
    (/\ call.op \in {"post", "put", "patch"}
     /\ sent # Nothing
     /\ ~Truthy(call.files)
     /\ call.arg.kind = "dict")
    => /\ sent.json = call.arg
       /\ DOMAIN JsonBody(sent.json) = DOMAIN call.arg.v
       /\ \A k \in DOMAIN call.arg.v :
             call.arg.v[k] = PyNone => JsonBody(sent.json)[k] = "null"
       /\ (call.via = "update_task" /\ call.arg = UpdateTaskData(PyStr("t"), PyNone))
             => /\ Cardinality(DOMAIN JsonBody(sent.json)) = 9
                /\ Cardinality({k \in DOMAIN JsonBody(sent.json) :
                                   JsonBody(sent.json)[k] = "null"}) = 8
                /\ JsonBody(sent.json)["title"] = "\"t\""

\* update_task with a title only has sent its PATCH request.
C28_Witness ==
    /\ call.via = "update_task"
    /\ call.op = "patch"
    /\ call.arg = UpdateTaskData(PyStr("t"), PyNone)
    /\ sent # Nothing
    /\ sent.method = "PATCH"
    /\ pc = "idle"

-----------------------------------------------------------------------------
(* C29 *)

\* Both threads found the slot absent when they tested it (or have not
\* tested it yet).
BothSawAbsent == \A t \in Threads : threads[t].seen \in {Nothing, PyNone}

\* C29 as stated: when two verb calls interleave, both having found the slot
\* absent, no step replaces a non-empty token in the slot by None, and every
\* request sent carries "Bearer " followed by a token that an authentication
\* stored.
C29_TokenSurvivesInterleaving ==
    [][BothSawAbsent =>
          /\ Truthy(access_token) => access_token' # PyNone
          /\ \A t \in Threads :
                threads'[t].sent # Nothing =>
                   \E tok \in issued' :
                      threads'[t].sent.headers = ExpectedHeaders(PyFormat(tok))]_vars

\* C29 amended: the slot is unprotected and the authentication that
\* completes last decides it.  After a refused authentication the slot is
\* None, a token the other thread stored before included; after an
\* authentication that delivered a token the slot is that token; each thread
\* issues at most one token request; and every request carries "Bearer "
\* followed by the slot's value when its headers were built: a token some
\* authentication stored, or the text None.
C29_LastAuthenticationWins ==
    /\ (auth # Nothing /\ AuthRefused(auth.answer)) => access_token = PyNone
    /\ (auth # Nothing /\ CarriesToken(auth.answer) /\ IsJsonContentType(auth.answer.ctype))
          => access_token = TokenIn(auth.answer)
    /\ \A t \in Threads :
          /\ threads[t].tokenReqs <= 1
          /\ threads[t].headers # Nothing =>
                \E x \in issued \cup {PyNone} :
                   threads[t].headers = ExpectedHeaders(PyFormat(x))
          /\ threads[t].sent # Nothing => threads[t].sent.headers = threads[t].headers

\* Both threads found the slot absent and authenticated; one stored a token,
\* the other's refused authentication erased it, and a request went out as
\* "Bearer None".
C29_Witness ==
    /\ \A t \in Threads :
          /\ threads[t].seen = PyNone
          /\ threads[t].tokenReqs = 1
          /\ threads[t].pc = "done"
    /\ \E tok \in issued : Truthy(tok)
    /\ access_token = PyNone
    /\ AuthRefused(auth.answer)
    /\ \E t \in Threads :
          /\ threads[t].sent # Nothing
          /\ threads[t].sent.headers = ExpectedHeaders("None")

-----------------------------------------------------------------------------
(* C30 *)

\* C30: when the organization-users fetch returned None, a finished by-user
\* wrapper (get_tasks_by_user, get_controls_by_user, get_labels_by_user,
\* get_risks_by_user, get_proof_by_user) has returned a value and has not
\* raised.
C30_ByUserNeverRaises ==
    /\ (wrapper # Nothing /\ wrapper.org_users = PyNone) => wrapper.outcome.kind = "return"
    /\ (/\ loop # Nothing
        /\ loop.op = "get_proof_by_user"
        /\ loop.org_users = PyNone
        /\ ppc = "done")
       => outcome.kind = "return"

====
